---- MODULE Spec2Model ----
(***************************************************************************)
(* A model of the three contracts of rmtlend_stylus:                       *)
(*   lending_pool   (LendingPool,   "LiquidityPool" in the specification)   *)
(*   loan_manager   (LoanManager)                                          *)
(*   oracle_verifier(OracleVerifier, "VerificationGateway")                *)
(*                                                                         *)
(* Every public function is an operator from a world (the storage of the  *)
(* three contracts and of the collateral registry) to a result            *)
(* [ok, w, ret]: ok = FALSE is an Err return or a panic, and the caller's  *)
(* `?` propagates it.  A transaction is one top-level call; when it fails  *)
(* every storage write of the transaction is discarded.                    *)
(*                                                                         *)
(* U256 values are written by the residue nearest to zero: 2^256 - k is    *)
(* written -k.  With that, the wrapping + and - of alloy's U256 are the    *)
(* integer + and -, and only the comparisons need care (ULt and friends).  *)
(* All amounts that enter the model are far below 2^255.                   *)
(*                                                                         *)
(* Block timestamps (deposit_timestamp, start_timestamp, next_payment_due),*)
(* a lender's share_percentage and the strings of a verification request   *)
(* are written by the code but never read by it; they are left out.  The   *)
(* share is new_deposit * 10000 / new_total_liq, at most 10000 as long as  *)
(* no lender's deposit exceeds total_liquidity, so its conversion to u32   *)
(* does not fail.                                                          *)
(***************************************************************************)
EXTENDS Integers, Sequences, FiniteSets, TLC

VARIABLES pool, lm, gw, nft, last, opened, applied, earnings, disbursed

vars == <<pool, lm, gw, nft, last, opened, applied, earnings, disbursed>>

(***************************************************************************)
(* Addresses                                                               *)
(***************************************************************************)
ZeroAddr    == "0x0"
AdminAddr   == "admin"
PoolAddr    == "LendingPool"
LMAddr      == "LoanManager"
GatewayAddr == "OracleVerifier"
NftAddr     == "RemittanceNFT"
Users       == {"alice", "bob", "carol"}
\* the externally owned accounts that send transactions
Callers     == Users \cup {AdminAddr}

(***************************************************************************)
(* Bounds of the model                                                     *)
(***************************************************************************)
MaxLoans     == 1
MaxNfts      == 1
MaxMissed    == 3
MaxInterest  == 6
MaxLiquidity == 200

\* the loan ids and token ids of the model: an id is unassigned (all zero)
\* until request_loan, or mint, reaches it
LoanIds == 1 .. MaxLoans
NftIds  == 1 .. MaxNfts

(***************************************************************************)
(* Program constants                                                       *)
(***************************************************************************)
SCALE          == 1000000000
BPS            == 10000
\* Loan.status
Pending        == 0
Active         == 1
Repaid         == 2
Defaulted      == 3
\* payments_missed at which a loan is defaulted
DefaultAfter   == 2
\* VerificationRequest.status
VPending       == 0
VVerified      == 1
\* the reliability score report_remittance writes
ReportedScore  == 90

(***************************************************************************)
(* U256 arithmetic on residues nearest to zero                             *)
(***************************************************************************)
ULt(a, b) == IF (a >= 0) = (b >= 0) THEN a < b ELSE a >= 0
ULe(a, b) == a = b \/ ULt(a, b)
UGt(a, b) == ULt(b, a)
UGe(a, b) == ULe(b, a)

\* U256::saturating_add: the sum, or U256::MAX (written -1) when it passes 2^256
SatAdd(a, b) ==
    IF (a < 0 /\ b < 0) \/ ((a < 0) # (b < 0) /\ a + b >= 0) THEN -1 ELSE a + b

\* U256::saturating_sub
SatSub(a, b) == IF ULt(a, b) THEN 0 ELSE a - b

\* <<quotient, remainder>> of a*b by c, for a, b >= 0 and c > 0, computed
\* without forming a*b (which may pass TLC's 32-bit integers)
RECURSIVE MulDivQR(_, _, _)
MulDivQR(a, b, c) ==
    IF a = 0 THEN <<0, 0>>
    ELSE LET h  == MulDivQR(a \div 2, b, c)
             r2 == 2 * h[2]
             q2 == 2 * h[1] + (r2 \div c)
             r3 == (r2 % c) + (IF a % 2 = 1 THEN b % c ELSE 0)
             q3 == q2 + (IF a % 2 = 1 THEN b \div c ELSE 0) + (r3 \div c)
         IN  <<q3, r3 % c>>

\* (a * b) / c with U256's truncating division
MulDiv(a, b, c) == MulDivQR(a, b, c)[1]

(***************************************************************************)
(* Results of a call                                                       *)
(***************************************************************************)
Ok(w, ret) == [ok |-> TRUE, w |-> w, ret |-> ret]
Err(w)     == [ok |-> FALSE, w |-> w, ret |-> 0]

\* What the environment decides in one transaction: whether the token's
\* transfer / transferFrom succeeds, whether the registry's call succeeds,
\* and whether a call to an address that is none of the contracts succeeds.
Envs == [token_ok : BOOLEAN, nft_ok : BOOLEAN, ext_ok : BOOLEAN]

\* IERC20.transfer / transferFrom: the call is recorded with its outcome
TokenCall(w, env, fn, from, to, tokens) ==
    [w EXCEPT !.calls = Append(@, [fn |-> fn, from |-> from, to |-> to,
                                   tokens |-> tokens, ok |-> env.token_ok])]

(***************************************************************************)
(* LendingPool                                                             *)
(***************************************************************************)
ZeroLender == [deposit_amount |-> 0, earned_interest |-> 0,
               last_acc_interest_per_share |-> 0]

\* update_interest with a fault: the checkpoint is not moved
update_interest_no_checkpoint(w, lender_addr) ==
    LET lender  == w.pool.lenders[lender_addr]
        acc     == w.pool.accumulated_interest_per_share
        last_acc == lender.last_acc_interest_per_share
        pending == IF UGt(lender.deposit_amount, 0)
                   THEN lender.earned_interest
                        + MulDiv(lender.deposit_amount, acc - last_acc, SCALE)
                   ELSE 0
    IN  [w   |-> [w EXCEPT !.pool.lenders[lender_addr].earned_interest = pending],
         ret |-> pending]

update_interest(w, lender_addr) ==
    LET lender  == w.pool.lenders[lender_addr]
        acc     == w.pool.accumulated_interest_per_share
        last_acc == lender.last_acc_interest_per_share
        pending == IF UGt(lender.deposit_amount, 0)
                   THEN lender.earned_interest
                        + MulDiv(lender.deposit_amount, acc - last_acc, SCALE)
                   ELSE 0
    IN  [w   |-> [w EXCEPT
                    !.pool.lenders[lender_addr].last_acc_interest_per_share = acc,
                    !.pool.lenders[lender_addr].earned_interest = pending],
         ret |-> pending]

deposit(w, sender, amount, env) ==
    IF amount = 0 THEN Err(w)
    ELSE
    LET \* the transferFrom's result is dropped (let _ =)
        w1  == TokenCall(w, env, "transferFrom", sender, PoolAddr, amount)
        u   == update_interest(w1, sender)
        pending == u.ret
        lender  == u.w.pool.lenders[sender]
        new_deposit == SatAdd(lender.deposit_amount, amount)
        accrued_interest ==
            IF lender.deposit_amount = 0 /\ UGt(pending, 0) THEN pending ELSE 0
        new_total_liq == SatAdd(u.w.pool.total_liquidity, amount)
    IN  Ok([u.w EXCEPT
              !.pool.total_liquidity = new_total_liq,
              !.pool.lenders[sender].earned_interest = accrued_interest,
              !.pool.lenders[sender].deposit_amount = new_deposit], 0)

\* withdraw with a fault: total_liquidity is not reduced
withdraw_keeps_liquidity(w, sender, amount, env) ==
    IF amount = 0 THEN Err(w)
    ELSE
    LET deposit_amount == w.pool.lenders[sender].deposit_amount
        total_liq == w.pool.total_liquidity
        available == SatSub(total_liq, w.pool.total_borrowed)
    IN
    IF ULt(deposit_amount, amount) THEN Err(w)
    ELSE IF UGt(amount, available) THEN Err(w)
    ELSE
    LET u == update_interest(w, sender)
        pending == u.ret
        new_deposit == SatSub(deposit_amount, amount)
        new_total_liq == total_liq
        w1 == [u.w EXCEPT
                 !.pool.total_liquidity = new_total_liq,
                 !.pool.lenders[sender].deposit_amount = new_deposit]
        total_withdraw == SatAdd(amount, pending)
    IN  Ok(TokenCall(w1, env, "transfer", PoolAddr, sender, total_withdraw), 0)

withdraw(w, sender, amount, env) ==
    IF amount = 0 THEN Err(w)
    ELSE
    LET deposit_amount == w.pool.lenders[sender].deposit_amount
        total_liq == w.pool.total_liquidity
        available == SatSub(total_liq, w.pool.total_borrowed)
    IN
    IF ULt(deposit_amount, amount) THEN Err(w)
    ELSE IF UGt(amount, available) THEN Err(w)
    ELSE
    LET u == update_interest(w, sender)
        pending == u.ret
        new_deposit == SatSub(deposit_amount, amount)
        new_total_liq == SatSub(total_liq, amount)
        w1 == [u.w EXCEPT
                 !.pool.total_liquidity = new_total_liq,
                 !.pool.lenders[sender].deposit_amount = new_deposit]
        total_withdraw == SatAdd(amount, pending)
        \* the transfer's result is dropped (let _ =)
    IN  Ok(TokenCall(w1, env, "transfer", PoolAddr, sender, total_withdraw), 0)

borrow(w, caller, amount, borrower, env) ==
    IF caller # w.pool.loan_manager THEN Err(w)
    ELSE IF ~UGt(amount, 0) THEN Err(w)
    ELSE
    LET total_liq == w.pool.total_liquidity
        total_borrowed == w.pool.total_borrowed
    IN
    IF ~UGe(total_liq, total_borrowed + amount) THEN Err(w)
    ELSE
    LET w1 == [w EXCEPT !.pool.total_borrowed = total_borrowed + amount]
        \* the transfer's result is dropped (let _ =)
    IN  Ok(TokenCall(w1, env, "transfer", PoolAddr, borrower, amount), 0)

\* the body of repay once the caller is admitted
repay_apply(w, principal, interest) ==
    LET total_borrowed == w.pool.total_borrowed - principal
        total_interest_earned == w.pool.total_interest_earned + interest
        total_liq == w.pool.total_liquidity
        acc == IF UGt(interest, 0) /\ UGt(total_liq, 0)
               THEN w.pool.accumulated_interest_per_share
                    + MulDiv(interest, SCALE, total_liq)
               ELSE w.pool.accumulated_interest_per_share
    IN  Ok([w EXCEPT
              !.pool.total_borrowed = total_borrowed,
              !.pool.total_interest_earned = total_interest_earned,
              !.pool.accumulated_interest_per_share = acc], 0)

\* repay with a fault: any caller is admitted
repay_any_caller(w, caller, principal, interest) ==
    repay_apply(w, principal, interest)

repay(w, caller, principal, interest) ==
    IF caller # w.pool.loan_manager THEN Err(w)
    ELSE repay_apply(w, principal, interest)

(***************************************************************************)
(* The collateral registry (IRemittanceNFT), an external contract: its     *)
(* interface is all the three contracts depend on.  A token carries its    *)
(* owner, its reliability score and its staked flag; a call to the         *)
(* registry may fail (env.nft_ok).                                         *)
(***************************************************************************)
ZeroToken == [owner |-> ZeroAddr, score |-> 0, staked |-> FALSE]

get_remittance(w, token_id) == w.nft.tokens[token_id]

stake_nft(w, token_id, loan_id, env) ==
    IF ~env.nft_ok THEN Err(w)
    ELSE Ok([w EXCEPT !.nft.tokens[token_id].staked = TRUE], 0)

unstake_nft(w, token_id, env) ==
    IF ~env.nft_ok THEN Err(w)
    ELSE Ok([w EXCEPT !.nft.tokens[token_id].staked = FALSE], 0)

mint(w, user, reliability_score, env) ==
    IF ~env.nft_ok THEN Err(w)
    ELSE LET id == w.nft.minted + 1
         IN  Ok([w EXCEPT !.nft.minted = id,
                          !.nft.tokens[id] = [owner |-> user,
                                              score |-> reliability_score,
                                              staked |-> FALSE]], id)

update_remittance(w, token_id, new_reliability_score, env) ==
    IF ~env.nft_ok THEN Err(w)
    ELSE Ok([w EXCEPT !.nft.tokens[token_id].score = new_reliability_score], 0)

(***************************************************************************)
(* LoanManager                                                             *)
(***************************************************************************)
ZeroLoan == [loan_id |-> 0, borrower |-> ZeroAddr, nft_collateral_id |-> 0,
             loan_amount |-> 0, outstanding_balance |-> 0, total_repaid |-> 0,
             interest_rate_bps |-> 0, duration_months |-> 0,
             monthly_payment |-> 0, status |-> Pending,
             payments_made |-> 0, payments_missed |-> 0]

\* _calculate_interest_rate with a fault: the boundaries fall in the lower tier
_calculate_interest_rate_above(score) ==
    LET s == score % 100
    IN  IF s > 90 THEN 1500
        ELSE IF s > 80 THEN 2000
        ELSE IF s > 70 THEN 3000
        ELSE 4000

_calculate_interest_rate(score) ==
    LET s == score % 100
    IN  IF s >= 90 THEN 1500
        ELSE IF s >= 80 THEN 2000
        ELSE IF s >= 70 THEN 3000
        ELSE 4000

_calculate_monthly_payment(principal, rate_bps, months) ==
    LET total_interest == (principal * rate_bps * months) \div (12 * 10000)
        total == principal + total_interest
    IN  IF months = 0 THEN total ELSE total \div months

\* _calculate_interest_portion with a fault: the division rounds up
_calculate_interest_portion_rounds_up(outstanding, annual_rate_bps) ==
    LET monthly_rate == annual_rate_bps \div 12
    IN  (outstanding * monthly_rate + (BPS - 1)) \div BPS

_calculate_interest_portion(outstanding, annual_rate_bps) ==
    LET monthly_rate == annual_rate_bps \div 12
    IN  (outstanding * monthly_rate) \div BPS

request_loan(w, borrower, nft_id, amount, duration_months, env) ==
    IF ~env.nft_ok THEN Err(w)
    ELSE
    LET rem == get_remittance(w, nft_id)
    IN
    IF rem.owner # borrower THEN Err(w)
    ELSE
    LET interest_rate_bps == _calculate_interest_rate(rem.score)
        monthly_payment ==
            _calculate_monthly_payment(amount, interest_rate_bps, duration_months)
        loan_id == w.lm.loan_counter + 1
    IN  Ok([w EXCEPT
              !.lm.loan_counter = loan_id,
              !.lm.loans[loan_id] =
                  [loan_id |-> loan_id, borrower |-> borrower,
                   nft_collateral_id |-> nft_id, loan_amount |-> amount,
                   outstanding_balance |-> amount, total_repaid |-> 0,
                   interest_rate_bps |-> interest_rate_bps,
                   duration_months |-> duration_months,
                   monthly_payment |-> monthly_payment, status |-> Pending,
                   payments_made |-> 0, payments_missed |-> 0]], loan_id)

\* the body of approve_loan once the caller is admitted
approve_loan_apply(w, loan_id, env) ==
    LET loan == w.lm.loans[loan_id]
    IN
    IF loan.status # Pending THEN Err(w)
    ELSE
    LET s == stake_nft(w, loan.nft_collateral_id, loan_id, env)
    IN
    IF ~s.ok THEN Err(w)
    ELSE
    LET b == borrow(s.w, LMAddr, loan.loan_amount, loan.borrower, env)
    IN
    IF ~b.ok THEN Err(w)
    ELSE Ok([b.w EXCEPT !.lm.loans[loan_id].status = Active], 0)

\* approve_loan with a fault: any caller is admitted
approve_loan_any_caller(w, caller, loan_id, env) ==
    approve_loan_apply(w, loan_id, env)

approve_loan(w, caller, loan_id, env) ==
    IF caller # w.lm.admin THEN Err(w)
    ELSE approve_loan_apply(w, loan_id, env)

\* _process_payment with a fault: the collateral stays staked at the payoff
_process_payment_no_unstake(w, loan_id, payer, amount, env) ==
    IF amount = 0 THEN Err(w)
    ELSE
    LET loan == w.lm.loans[loan_id]
        outstanding == loan.outstanding_balance
        interest_portion ==
            _calculate_interest_portion(outstanding, loan.interest_rate_bps)
    IN
    IF loan.status # Active THEN Err(w)
    ELSE
    LET principal_portion == IF UGt(amount, interest_portion)
                             THEN amount - interest_portion
                             ELSE 0
        w1 == TokenCall(w, env, "transferFrom", payer, PoolAddr, amount)
    IN
    IF ~env.token_ok THEN Err(w)
    ELSE
    LET r == repay(w1, LMAddr, principal_portion, interest_portion)
    IN
    IF ~r.ok THEN Err(w)
    ELSE
    LET payoff == UGe(principal_portion, outstanding)
        u == Ok(r.w, 0)
    IN
    IF ~u.ok THEN Err(w)
    ELSE Ok([u.w EXCEPT
               !.lm.loans[loan_id].total_repaid = loan.total_repaid,
               !.lm.loans[loan_id].payments_made = loan.payments_made,
               !.lm.loans[loan_id].outstanding_balance =
                   IF payoff THEN 0 ELSE outstanding - principal_portion,
               !.lm.loans[loan_id].status =
                   IF payoff THEN Repaid ELSE loan.status], 0)

\* _process_payment with a fault: the balance written back is the one read
_process_payment_keeps_balance(w, loan_id, payer, amount, env) ==
    IF amount = 0 THEN Err(w)
    ELSE
    LET loan == w.lm.loans[loan_id]
        outstanding == loan.outstanding_balance
        interest_portion ==
            _calculate_interest_portion(outstanding, loan.interest_rate_bps)
    IN
    IF loan.status # Active THEN Err(w)
    ELSE
    LET principal_portion == IF UGt(amount, interest_portion)
                             THEN amount - interest_portion
                             ELSE 0
        w1 == TokenCall(w, env, "transferFrom", payer, PoolAddr, amount)
    IN
    IF ~env.token_ok THEN Err(w)
    ELSE
    LET r == repay(w1, LMAddr, principal_portion, interest_portion)
    IN
    IF ~r.ok THEN Err(w)
    ELSE
    LET payoff == UGe(principal_portion, outstanding)
        u == IF payoff THEN unstake_nft(r.w, loan.nft_collateral_id, env)
             ELSE Ok(r.w, 0)
    IN
    IF ~u.ok THEN Err(w)
    ELSE Ok([u.w EXCEPT
               !.lm.loans[loan_id].total_repaid = loan.total_repaid,
               !.lm.loans[loan_id].payments_made = loan.payments_made,
               !.lm.loans[loan_id].outstanding_balance =
                   IF payoff THEN 0 ELSE outstanding,
               !.lm.loans[loan_id].status =
                   IF payoff THEN Repaid ELSE loan.status], 0)

_process_payment(w, loan_id, payer, amount, env) ==
    IF amount = 0 THEN Err(w)
    ELSE
    LET loan == w.lm.loans[loan_id]
        outstanding == loan.outstanding_balance
        interest_portion ==
            _calculate_interest_portion(outstanding, loan.interest_rate_bps)
    IN
    IF loan.status # Active THEN Err(w)
    ELSE
    LET principal_portion == IF UGt(amount, interest_portion)
                             THEN amount - interest_portion
                             ELSE 0
        w1 == TokenCall(w, env, "transferFrom", payer, PoolAddr, amount)
    IN
    IF ~env.token_ok THEN Err(w)
    ELSE
    LET r == repay(w1, LMAddr, principal_portion, interest_portion)
    IN
    IF ~r.ok THEN Err(w)
    ELSE
    LET payoff == UGe(principal_portion, outstanding)
        u == IF payoff THEN unstake_nft(r.w, loan.nft_collateral_id, env)
             ELSE Ok(r.w, 0)
    IN
    IF ~u.ok THEN Err(w)
    ELSE Ok([u.w EXCEPT
               !.lm.loans[loan_id].total_repaid = loan.total_repaid,
               !.lm.loans[loan_id].payments_made = loan.payments_made,
               !.lm.loans[loan_id].outstanding_balance =
                   IF payoff THEN 0 ELSE outstanding - principal_portion,
               !.lm.loans[loan_id].status =
                   IF payoff THEN Repaid ELSE loan.status], 0)

\* make_payment with a fault: the payer need not be the borrower
make_payment_any_sender(w, sender, loan_id, amount, env) ==
    IF w.lm.loans[loan_id].status # Active THEN Err(w)
    ELSE _process_payment(w, loan_id, sender, amount, env)

make_payment(w, sender, loan_id, amount, env) ==
    LET loan == w.lm.loans[loan_id]
    IN  IF loan.status # Active THEN Err(w)
        ELSE IF sender # loan.borrower THEN Err(w)
        ELSE _process_payment(w, loan_id, sender, amount, env)

\* process_auto_repayment with a fault: the remittance is applied whole
process_auto_repayment_no_cap(w, caller, loan_id, remittance_amount, env) ==
    IF caller # w.lm.oracle THEN Err(w)
    ELSE
    LET loan == w.lm.loans[loan_id]
        payment_amount == remittance_amount
        p == _process_payment(w, loan_id, loan.borrower, payment_amount, env)
    IN  IF ~p.ok THEN Err(w)
        ELSE Ok(p.w, remittance_amount - payment_amount)

process_auto_repayment(w, caller, loan_id, remittance_amount, env) ==
    IF caller # w.lm.oracle THEN Err(w)
    ELSE
    LET loan == w.lm.loans[loan_id]
        payment_amount == IF UGe(remittance_amount, loan.monthly_payment)
                          THEN loan.monthly_payment
                          ELSE remittance_amount
        p == _process_payment(w, loan_id, loan.borrower, payment_amount, env)
    IN  IF ~p.ok THEN Err(w)
        ELSE Ok(p.w, remittance_amount - payment_amount)

mark_payment_missed(w, caller, loan_id) ==
    IF caller # w.lm.oracle THEN Err(w)
    ELSE
    LET missed == w.lm.loans[loan_id].payments_missed + 1
    IN  Ok([w EXCEPT
              !.lm.loans[loan_id].payments_missed = missed,
              !.lm.loans[loan_id].status =
                  IF missed >= DefaultAfter THEN Defaulted ELSE @], 0)

(***************************************************************************)
(* OracleVerifier                                                          *)
(***************************************************************************)
ZeroRequest == [user |-> ZeroAddr, status |-> VPending]

\* a call through ILoanManager to the address stored in loan_manager: the
\* LoanManager when it is that address, else a contract outside the model
call_process_auto_repayment(w, loan_id, amount, env) ==
    IF w.gw.loan_manager = LMAddr
    THEN process_auto_repayment(w, GatewayAddr, loan_id, amount, env)
    ELSE IF env.ext_ok THEN Ok(w, 0) ELSE Err(w)

call_mark_payment_missed(w, loan_id, env) ==
    IF w.gw.loan_manager = LMAddr
    THEN mark_payment_missed(w, GatewayAddr, loan_id)
    ELSE IF env.ext_ok THEN Ok(w, 0) ELSE Err(w)

\* a call through IRemittanceNFT to the address stored in remittance_nft
call_mint(w, user, reliability_score, env) ==
    IF w.gw.remittance_nft = NftAddr
    THEN mint(w, user, reliability_score, env)
    ELSE IF env.ext_ok THEN Ok(w, 0) ELSE Err(w)

call_update_remittance(w, token_id, new_reliability_score, env) ==
    IF w.gw.remittance_nft = NftAddr
    THEN update_remittance(w, token_id, new_reliability_score, env)
    ELSE IF env.ext_ok THEN Ok(w, 0) ELSE Err(w)

_calculate_reliability_score(paid, total) ==
    IF total = 0 THEN 100 ELSE (paid * 100) \div total

set_addresses(w, caller, remittance_nft, loan_manager) ==
    Ok([w EXCEPT !.gw.remittance_nft = remittance_nft,
                 !.gw.loan_manager = loan_manager], 0)

request_verification(w, user) ==
    Ok([w EXCEPT !.gw.verification_requests[user] =
                     [user |-> user, status |-> VPending]], 0)

submit_verification(w, caller, user, paid_count, total_count, env) ==
    IF w.gw.verification_requests[user].status # VPending THEN Err(w)
    ELSE
    LET reliability_score == _calculate_reliability_score(paid_count, total_count)
        m == call_mint(w, user, reliability_score, env)
    IN  IF ~m.ok THEN Err(w)
        ELSE Ok([m.w EXCEPT !.gw.verification_requests[user].status = VVerified], 0)

start_monitoring_loan(w, caller, loan_id) ==
    IF caller # w.gw.loan_manager THEN Err(w)
    ELSE Ok([w EXCEPT !.gw.monitored_loans[loan_id] = TRUE], 0)

report_remittance(w, caller, nft_id, amount, loan_id, env) ==
    IF ~w.gw.monitored_loans[loan_id] THEN Err(w)
    ELSE
    LET u == call_update_remittance(w, nft_id, ReportedScore, env)
    IN
    IF ~u.ok THEN Err(w)
    ELSE
    LET p == call_process_auto_repayment(u.w, loan_id, amount, env)
    IN  IF ~p.ok THEN Err(w) ELSE Ok(p.w, 0)

report_missed_payment(w, caller, loan_id, nft_id, env) ==
    LET m == call_mark_payment_missed(w, loan_id, env)
    IN  IF ~m.ok THEN Err(w) ELSE Ok(m.w, 0)

(***************************************************************************)
(* Transactions                                                            *)
(***************************************************************************)
World == [pool |-> pool, lm |-> lm, gw |-> gw, nft |-> nft, calls |-> <<>>]

NoCall == [op |-> "none", caller |-> ZeroAddr, loan_id |-> 0, amount |-> 0,
           ok |-> FALSE, calls |-> <<>>, ret |-> 0]

\* What is remembered of a lender's latest deposit: the position D it left,
\* the accumulator A0 at that moment, the number of repays that have moved
\* the accumulator since, whether the lender has made no call of their own
\* since (fresh), or exactly one, a withdrawal (settled)
NotOpened == [fresh |-> FALSE, settled |-> FALSE, D |-> 0, A0 |-> 0, repays |-> 0]

\* opened after a transaction with result r that is no deposit or withdrawal
OpenedAfter(r) ==
    IF r.ok /\ r.w.pool.accumulated_interest_per_share
                  # pool.accumulated_interest_per_share
    THEN [a \in Callers |-> IF opened[a].fresh
                            THEN [opened[a] EXCEPT !.repays = @ + 1]
                            ELSE opened[a]]
    ELSE opened

\* the calls that end in _process_payment
PaymentOps == {"make_payment", "process_auto_repayment", "report_remittance"}

\* What is remembered of a loan's payments: the sum, over the payments that
\* succeeded, of the principal each one brought, max(0, pulled - interest)
\* and no more than what was outstanding, where pulled is what the payment's
\* transferFrom moved and interest is the month's interest on what was
\* outstanding
AppliedAfter(op, loan_id, r) ==
    IF r.ok /\ op \in PaymentOps /\ Len(r.w.calls) > 0
    THEN LET loan      == lm.loans[loan_id]
             pulled    == r.w.calls[1].tokens
             portion   == (loan.outstanding_balance
                             * (loan.interest_rate_bps \div 12)) \div 10000
             principal == IF pulled > portion THEN pulled - portion ELSE 0
         IN  [applied EXCEPT ![loan_id] =
                 @ + (IF principal < loan.outstanding_balance
                      THEN principal ELSE loan.outstanding_balance)]
    ELSE applied

\* What is remembered of a lender's interest: what has accrued to the lender,
\* the sum over the lender's settlements of
\* deposit_amount * (accumulator - checkpoint) / 1e9, less what the lender
\* has received, the sum over the lender's withdrawals of what the transfer
\* paid above the withdrawn amount.  It is kept in the specifications that
\* start with earnings.on.
InterestAfter(op, caller, r) ==
    IF earnings.on /\ r.ok /\ op \in {"deposit", "withdraw"}
    THEN LET lender == pool.lenders[caller]
             accrual == MulDiv(lender.deposit_amount,
                               pool.accumulated_interest_per_share
                                 - lender.last_acc_interest_per_share, SCALE)
             withdrawn == lender.deposit_amount
                            - r.w.pool.lenders[caller].deposit_amount
             paid == IF op = "withdraw" /\ r.w.calls[1].ok
                     THEN r.w.calls[1].tokens - withdrawn ELSE 0
         IN  [earnings EXCEPT !.owed[caller] = @ + accrual - paid]
    ELSE earnings

\* What is remembered of the approvals: the loans whose approve_loan succeeded,
\* each of which had its loan_amount lent out of the pool by borrow
DisbursedAfter(op, loan_id, r) ==
    IF r.ok /\ op = "approve_loan" THEN disbursed \cup {loan_id} ELSE disbursed

\* the storage after a transaction with result r, and the record of the call
TxA(op, caller, loan_id, amount, r) ==
    /\ pool' = (IF r.ok THEN r.w.pool ELSE pool)
    /\ lm'   = (IF r.ok THEN r.w.lm ELSE lm)
    /\ gw'   = (IF r.ok THEN r.w.gw ELSE gw)
    /\ nft'  = (IF r.ok THEN r.w.nft ELSE nft)
    /\ last' = [op |-> op, caller |-> caller, loan_id |-> loan_id,
                amount |-> amount, ok |-> r.ok,
                calls |-> (IF r.ok THEN r.w.calls ELSE <<>>),
                ret |-> (IF r.ok THEN r.ret ELSE 0)]
    /\ applied' = AppliedAfter(op, loan_id, r)
    /\ earnings' = InterestAfter(op, caller, r)
    /\ disbursed' = DisbursedAfter(op, loan_id, r)

Tx(op, caller, loan_id, r) == TxA(op, caller, loan_id, 0, r)

InitStorage ==
    /\ pool = [loan_manager |-> LMAddr,
               total_liquidity |-> 0, total_borrowed |-> 0,
               total_interest_earned |-> 0,
               accumulated_interest_per_share |-> 0,
               lenders |-> [a \in Callers |-> ZeroLender]]
    /\ lm = [admin |-> AdminAddr, oracle |-> GatewayAddr, loan_counter |-> 0,
             loans |-> [i \in LoanIds |-> ZeroLoan]]
    /\ gw = [admin |-> AdminAddr, remittance_nft |-> NftAddr,
             loan_manager |-> LMAddr,
             verification_requests |-> [a \in Callers |-> ZeroRequest],
             monitored_loans |-> [i \in LoanIds |-> FALSE]]
    /\ nft = [minted |-> 0, tokens |-> [t \in NftIds |-> ZeroToken]]
    /\ last = NoCall
    /\ opened = [a \in Callers |-> NotOpened]
    /\ applied = [i \in LoanIds |-> 0]
    /\ disbursed = {}

Init ==
    /\ InitStorage
    /\ earnings = [on |-> FALSE, owed |-> [a \in Callers |-> 0]]

\* the same, with the lenders' interest followed
InitEarnings ==
    /\ InitStorage
    /\ earnings = [on |-> TRUE, owed |-> [a \in Callers |-> 0]]

Deposit(c, amount, env) ==
    /\ pool.total_liquidity + amount <= MaxLiquidity
    /\ LET r == deposit(World, c, amount, env)
       IN  /\ Tx("deposit", c, 0, r)
           /\ opened' = IF r.ok
                        THEN [opened EXCEPT ![c] =
                                [fresh |-> TRUE, settled |-> FALSE,
                                 D |-> r.w.pool.lenders[c].deposit_amount,
                                 A0 |-> pool.accumulated_interest_per_share,
                                 repays |-> 0]]
                        ELSE opened

Withdraw(c, amount, env) ==
    LET r == withdraw(World, c, amount, env)
    IN  /\ Tx("withdraw", c, 0, r)
        /\ opened' = IF ~r.ok THEN opened
                     ELSE IF opened[c].fresh
                     THEN [opened EXCEPT ![c].fresh = FALSE, ![c].settled = TRUE]
                     ELSE [opened EXCEPT ![c] = NotOpened]

Borrow(c, amount, borrower, env) ==
    /\ LET r == borrow(World, c, amount, borrower, env)
       IN  Tx("borrow", c, 0, r) /\ opened' = OpenedAfter(r)

Repay(c, principal, interest) ==
    /\ pool.total_interest_earned + interest <= MaxInterest
    /\ LET r == repay(World, c, principal, interest)
       IN  Tx("repay", c, 0, r) /\ opened' = OpenedAfter(r)

RequestLoan(c, nft_id, amount, months, env) ==
    /\ lm.loan_counter < MaxLoans
    /\ LET r == request_loan(World, c, nft_id, amount, months, env)
       IN  Tx("request_loan", c, 0, r) /\ opened' = OpenedAfter(r)

ApproveLoan(c, loan_id, env) ==
    /\ LET r == approve_loan(World, c, loan_id, env)
       IN  Tx("approve_loan", c, loan_id, r) /\ opened' = OpenedAfter(r)

\* the interest a payment on the loan would report to the pool
NextInterest(loan_id) ==
    _calculate_interest_portion(lm.loans[loan_id].outstanding_balance,
                                lm.loans[loan_id].interest_rate_bps)

MakePayment(c, loan_id, amount, env) ==
    /\ pool.total_interest_earned + NextInterest(loan_id) <= MaxInterest
    /\ LET r == make_payment(World, c, loan_id, amount, env)
       IN  TxA("make_payment", c, loan_id, amount, r) /\ opened' = OpenedAfter(r)

ProcessAutoRepayment(c, loan_id, amount, env) ==
    /\ pool.total_interest_earned + NextInterest(loan_id) <= MaxInterest
    /\ LET r == process_auto_repayment(World, c, loan_id, amount, env)
       IN  TxA("process_auto_repayment", c, loan_id, amount, r) /\ opened' = OpenedAfter(r)

MarkPaymentMissed(c, loan_id) ==
    /\ lm.loans[loan_id].payments_missed < MaxMissed
    /\ LET r == mark_payment_missed(World, c, loan_id)
       IN  Tx("mark_payment_missed", c, loan_id, r) /\ opened' = OpenedAfter(r)

SetAddresses(c, remittance_nft, loan_manager) ==
    /\ LET r == set_addresses(World, c, remittance_nft, loan_manager)
       IN  Tx("set_addresses", c, 0, r) /\ opened' = OpenedAfter(r)

RequestVerification(c) ==
    /\ LET r == request_verification(World, c)
       IN  Tx("request_verification", c, 0, r) /\ opened' = OpenedAfter(r)

SubmitVerification(c, user, paid, total, env) ==
    /\ nft.minted < MaxNfts
    /\ LET r == submit_verification(World, c, user, paid, total, env)
       IN  Tx("submit_verification", c, 0, r) /\ opened' = OpenedAfter(r)

StartMonitoringLoan(c, loan_id) ==
    /\ LET r == start_monitoring_loan(World, c, loan_id)
       IN  Tx("start_monitoring_loan", c, loan_id, r) /\ opened' = OpenedAfter(r)

ReportRemittance(c, nft_id, amount, loan_id, env) ==
    /\ pool.total_interest_earned + NextInterest(loan_id) <= MaxInterest
    /\ LET r == report_remittance(World, c, nft_id, amount, loan_id, env)
       IN  TxA("report_remittance", c, loan_id, amount, r) /\ opened' = OpenedAfter(r)

ReportMissedPayment(c, loan_id, nft_id, env) ==
    /\ lm.loans[loan_id].payments_missed < MaxMissed
    /\ LET r == report_missed_payment(World, c, loan_id, nft_id, env)
       IN  Tx("report_missed_payment", c, loan_id, r) /\ opened' = OpenedAfter(r)

(***************************************************************************)
(* The inputs: who lends, who borrows, who tries what, and with which      *)
(* amounts.  A loan of 100 at 4000 bps owes 3 of interest a month, and a   *)
(* payment of 60 on it leaves 43, which a second payment of 60 overpays.   *)
(***************************************************************************)
Lenders         == {"alice", "bob"}
Borrowers       == {"carol"}
\* one caller who holds the admin role and one who holds no role
Probers         == {AdminAddr, "carol"}
DepositAmounts  == {100}
WithdrawAmounts == {100}
LoanAmounts     == {100}
Durations       == {12}
PaymentAmounts  == {1, 60}
Histories       == {<<1, 2>>}

EnvOk     == [token_ok |-> TRUE, nft_ok |-> TRUE, ext_ok |-> TRUE]
EnvsToken == [token_ok : BOOLEAN, nft_ok : {TRUE}, ext_ok : {TRUE}]
EnvsNft   == [token_ok : {TRUE}, nft_ok : BOOLEAN, ext_ok : {TRUE}]
EnvsExt   == [token_ok : {TRUE}, nft_ok : {TRUE}, ext_ok : BOOLEAN]

\* The LoanManager: one lender funds the pool, the borrower's collateral is
\* minted, and the oracle reports missed payments
Next ==
    \/ \E a \in DepositAmounts : Deposit("alice", a, EnvOk)
    \/ \E u \in Borrowers, h \in Histories :
          SubmitVerification(AdminAddr, u, h[1], h[2], EnvOk)
    \/ \E c \in Borrowers, t \in NftIds, a \in LoanAmounts, d \in Durations :
          RequestLoan(c, t, a, d, EnvOk)
    \/ \E c \in Probers, i \in LoanIds, e \in EnvsNft : ApproveLoan(c, i, e)
    \/ \E c \in Probers, i \in LoanIds, a \in PaymentAmounts, e \in EnvsToken :
          MakePayment(c, i, a, e)
    \/ \E c \in Probers, i \in LoanIds, a \in PaymentAmounts :
          ProcessAutoRepayment(c, i, a, EnvOk)
    \/ \E c \in Probers, i \in LoanIds : MarkPaymentMissed(c, i)
    \/ \E c \in Probers, i \in LoanIds, t \in NftIds :
          ReportMissedPayment(c, i, t, EnvOk)

Spec == Init /\ [][Next]_vars

\* The pool with two lenders, and one borrower whose loan the admin approves
NextPool ==
    \/ \E c \in Lenders, a \in DepositAmounts : Deposit(c, a, EnvOk)
    \/ \E c \in Lenders, a \in WithdrawAmounts : Withdraw(c, a, EnvOk)
    \/ \E c \in Borrowers, a \in LoanAmounts : Borrow(c, a, c, EnvOk)
    \/ \E c \in Borrowers, a \in LoanAmounts : Repay(c, a, 1)
    \/ \E u \in Borrowers, h \in Histories :
          SubmitVerification(AdminAddr, u, h[1], h[2], EnvOk)
    \/ \E c \in Borrowers, t \in NftIds, a \in LoanAmounts, d \in Durations :
          RequestLoan(c, t, a, d, EnvOk)
    \/ \E i \in LoanIds : ApproveLoan(AdminAddr, i, EnvOk)
    \/ \E c \in Borrowers, i \in LoanIds, a \in PaymentAmounts :
          MakePayment(c, i, a, EnvOk)

SpecPool == Init /\ [][NextPool]_vars

\* The gateway in front of the LoanManager
NextGateway ==
    \/ \E a \in DepositAmounts : Deposit("alice", a, EnvOk)
    \/ \E c \in Borrowers : RequestVerification(c)
    \/ \E c \in Probers, u \in Borrowers, h \in Histories, e \in EnvsNft :
          SubmitVerification(c, u, h[1], h[2], e)
    \/ \E c \in Borrowers, t \in NftIds, a \in LoanAmounts, d \in Durations :
          RequestLoan(c, t, a, d, EnvOk)
    \/ \E i \in LoanIds : ApproveLoan(AdminAddr, i, EnvOk)
    \/ \E c \in Borrowers : \E m \in {LMAddr, c} : SetAddresses(c, NftAddr, m)
    \/ \E c \in Probers, i \in LoanIds : StartMonitoringLoan(c, i)
    \/ \E c \in Probers, t \in NftIds, a \in LoanAmounts, i \in LoanIds :
          ReportRemittance(c, t, a, i, EnvOk)
    \/ \E c \in Probers, i \in LoanIds, t \in NftIds, e \in EnvsExt :
          ReportMissedPayment(c, i, t, e)

SpecGateway == Init /\ [][NextGateway]_vars

\* The life of a loan: the borrower pays, the oracle (the gateway's call into
\* the LoanManager) reports remittances and missed payments.  103 pays a loan
\* of 100 off in one payment, with nothing over.
LoanPayments == PaymentAmounts \cup {103}
Remittances  == {0} \cup PaymentAmounts

NextLoan ==
    \/ \E a \in DepositAmounts : pool.total_liquidity = 0 /\ Deposit("alice", a, EnvOk)
    \/ \E u \in Borrowers, h \in Histories :
          SubmitVerification(AdminAddr, u, h[1], h[2], EnvOk)
    \/ \E c \in Borrowers, t \in NftIds, a \in LoanAmounts, d \in Durations :
          RequestLoan(c, t, a, d, EnvOk)
    \/ \E i \in LoanIds : ApproveLoan(AdminAddr, i, EnvOk)
    \/ \E c \in Borrowers, i \in LoanIds, a \in LoanPayments, e \in EnvsNft :
          MakePayment(c, i, a, e)
    \/ \E i \in LoanIds, a \in Remittances :
          ProcessAutoRepayment(GatewayAddr, i, a, EnvOk)
    \/ \E i \in LoanIds :
          lm.loans[i].payments_missed < DefaultAfter /\ MarkPaymentMissed(GatewayAddr, i)

SpecLoan == Init /\ [][NextLoan]_vars

\* The rate of a loan: payment histories that give the reliability scores
\* around the tiers' boundaries, a score of 100 (no history) and one above 100
ScoresTried   == {0, 10, 69, 70, 75, 79, 80, 85, 89, 90, 95, 99, 100, 190}
RateHistories == {<<p, 100>> : p \in ScoresTried} \cup {<<0, 0>>}

NextRates ==
    \/ \E a \in DepositAmounts : Deposit("alice", a, EnvOk)
    \/ \E u \in Borrowers, h \in RateHistories :
          SubmitVerification(AdminAddr, u, h[1], h[2], EnvOk)
    \/ \E c \in Borrowers, t \in NftIds, a \in LoanAmounts, d \in Durations :
          RequestLoan(c, t, a, d, EnvOk)
    \/ \E i \in LoanIds : ApproveLoan(AdminAddr, i, EnvOk)

SpecRates == Init /\ [][NextRates]_vars

\* A lender and the token: transfers may fail, withdrawals are partial, and
\* what the lender has accrued and received is followed
PartialWithdrawals == {50}
\* a payment below the month's interest: it brings the pool interest and no
\* principal
InterestPayments   == {1}

NextLender ==
    \/ \E a \in DepositAmounts, e \in EnvsToken : Deposit("alice", a, e)
    \/ \E a \in PartialWithdrawals, e \in EnvsToken : Withdraw("alice", a, e)
    \/ \E u \in Borrowers, h \in Histories :
          SubmitVerification(AdminAddr, u, h[1], h[2], EnvOk)
    \/ \E c \in Borrowers, t \in NftIds, a \in LoanAmounts, d \in Durations :
          RequestLoan(c, t, a, d, EnvOk)
    \/ \E i \in LoanIds, e \in EnvsToken : ApproveLoan(AdminAddr, i, e)
    \/ \E c \in Borrowers, i \in LoanIds, a \in InterestPayments :
          MakePayment(c, i, a, EnvOk)

SpecLender == InitEarnings /\ [][NextLender]_vars

(***************************************************************************)
(* Properties                                                              *)
(***************************************************************************)
RECURSIVE SumDeposits(_)
SumDeposits(S) ==
    IF S = {} THEN 0
    ELSE LET a == CHOOSE x \in S : TRUE
         IN  pool.lenders[a].deposit_amount + SumDeposits(S \ {a})

Storage == <<pool, lm, gw, nft>>

\* the ids request_loan has assigned
Requested(i) == i <= lm.loan_counter

\* C1: after every call the deposit_amount of all lenders add up to
\* total_liquidity.
C1_DepositsSumToLiquidity ==
    SumDeposits(Callers) = pool.total_liquidity

\* C1 witness: a withdrawal has just been served while the other lender is
\* still in and interest has been earned
C1_Witness ==
    /\ last.op = "withdraw" /\ last.ok
    /\ pool.total_liquidity > 0
    /\ pool.total_interest_earned > 0

\* C2: after every call total_liquidity >= total_borrowed (as U256 values);
\* repay never takes total_borrowed below zero.
C2_LiquidityCoversBorrowed ==
    UGe(pool.total_liquidity, pool.total_borrowed)

\* C3: once a loan is Repaid or Defaulted, no call changes its status or any
\* other field of it.
C3_FinishedLoanNeverChanges ==
    [][\A i \in LoanIds :
          (Requested(i) /\ lm.loans[i].status \in {Repaid, Defaulted})
              => lm'.loans[i] = lm.loans[i]]_vars

\* C4: a loan becomes Defaulted only from Active, by the report that brings
\* payments_missed to 2; a Pending loan or an id never requested never does.
C4_DefaultOnlyFromActive ==
    [][\A i \in LoanIds :
          (lm.loans[i].status # Defaulted /\ lm'.loans[i].status = Defaulted)
              => /\ Requested(i)
                 /\ lm.loans[i].status = Active
                 /\ lm'.loans[i].payments_missed = DefaultAfter]_vars

\* C5: a loan becomes Active only from Pending, in an approve_loan the admin
\* calls; an approve_loan by another caller or on a loan that is not Pending
\* fails and changes no storage.
C5_ActiveOnlyByAdminApproval ==
    [][/\ \A i \in LoanIds :
             (lm.loans[i].status # Active /\ lm'.loans[i].status = Active)
                 => /\ lm.loans[i].status = Pending
                    /\ last'.op = "approve_loan" /\ last'.loan_id = i
                    /\ last'.caller = lm.admin /\ last'.ok
       /\ (/\ last'.op = "approve_loan"
           /\ \/ last'.caller # lm.admin
              \/ lm.loans[last'.loan_id].status # Pending)
              => ~last'.ok /\ UNCHANGED Storage]_vars

\* C5 witness: the admin's approve_loan has just made a loan Active
C5_Witness ==
    /\ last.op = "approve_loan" /\ last.ok /\ last.caller = lm.admin
    /\ lm.loans[last.loan_id].status = Active

\* C6: a lender whose position is D after a deposit made at accumulator A0,
\* and whose next call is a withdrawal at accumulator A1, is sent the
\* withdrawn amount plus exactly D * (A1 - A0) / 1e9, however many repays
\* moved the accumulator in between.
C6_InterestPaidOnWithdraw ==
    \A c \in Callers :
        (last.op = "withdraw" /\ last.ok /\ last.caller = c /\ opened[c].settled)
            => /\ Len(last.calls) = 1
               /\ last.calls[1].fn = "transfer" /\ last.calls[1].to = c
               /\ last.calls[1].tokens =
                      (opened[c].D - pool.lenders[c].deposit_amount)
                      + MulDiv(opened[c].D,
                               pool.accumulated_interest_per_share - opened[c].A0,
                               SCALE)

\* C6 witness: such a withdrawal after a deposit made when the accumulator was
\* already above zero, with two repays in between and interest to pay
C6_Witness ==
    \E c \in Callers :
        /\ last.op = "withdraw" /\ last.ok /\ last.caller = c
        /\ opened[c].settled /\ opened[c].repays >= 2 /\ opened[c].A0 > 0
        /\ last.calls[1].tokens
               > opened[c].D - pool.lenders[c].deposit_amount

\* C7: a deposit by a lender who already has d > 0 on deposit keeps the
\* interest accrued on d: earned_interest becomes the old earned_interest plus
\* d * (accumulator - checkpoint) / 1e9, and the checkpoint becomes the
\* accumulator.
C7_DepositKeepsAccruedInterest ==
    [][\A c \in Callers :
          (/\ last'.op = "deposit" /\ last'.ok /\ last'.caller = c
           /\ pool.lenders[c].deposit_amount > 0
           /\ pool'.lenders[c].deposit_amount > pool.lenders[c].deposit_amount)
              => /\ pool'.lenders[c].earned_interest =
                        pool.lenders[c].earned_interest
                        + MulDiv(pool.lenders[c].deposit_amount,
                                 pool.accumulated_interest_per_share
                                   - pool.lenders[c].last_acc_interest_per_share,
                                 SCALE)
                 /\ pool'.lenders[c].last_acc_interest_per_share =
                        pool.accumulated_interest_per_share]_vars

\* C8: make_payment by another than the loan's borrower, and
\* process_auto_repayment or mark_payment_missed by another than the oracle,
\* fail and change no storage.
C8_UnauthorizedLoanCallsRejected ==
    [][(\/ /\ last'.op = "make_payment"
           /\ last'.caller # lm.loans[last'.loan_id].borrower
        \/ /\ last'.op \in {"process_auto_repayment", "mark_payment_missed"}
           /\ last'.caller # lm.oracle)
          => ~last'.ok /\ UNCHANGED Storage]_vars

\* C8 witness: a make_payment on an Active loan by another than its borrower
\* has just been rejected
C8_Witness ==
    /\ last.op = "make_payment" /\ ~last.ok
    /\ lm.loans[last.loan_id].status = Active
    /\ last.caller # lm.loans[last.loan_id].borrower

\* C9: submit_verification, report_remittance and report_missed_payment
\* succeed only when the caller is the admin (the code keeps no list of
\* operators).
C9_GatewayCallsNeedOperator ==
    (/\ last.op \in {"submit_verification", "report_remittance",
                     "report_missed_payment"}
     /\ last.ok)
        => last.caller = gw.admin

\* C10: borrow and repay called by another than the pool's loan_manager abort
\* and change nothing in the pool; total_borrowed, total_interest_earned and
\* the accumulator move only in calls that go through the LoanManager.
C10_PoolBorrowRepayOnlyByLoanManager ==
    [][/\ (last'.op \in {"borrow", "repay"} /\ last'.caller # pool.loan_manager)
            => ~last'.ok /\ UNCHANGED Storage
       /\ (\/ pool'.total_borrowed # pool.total_borrowed
           \/ pool'.total_interest_earned # pool.total_interest_earned
           \/ pool'.accumulated_interest_per_share
                 # pool.accumulated_interest_per_share)
            => last'.op \in {"approve_loan", "make_payment",
                             "process_auto_repayment", "report_remittance"}]_vars

\* C10 witness: a repay by another than the LoanManager has just been
\* rejected while the pool has money lent out
C10_Witness ==
    /\ last.op = "repay" /\ ~last.ok /\ last.caller # pool.loan_manager
    /\ pool.total_borrowed > 0

\* C11: a deposit, withdraw or borrow whose token transfer fails aborts: no
\* such call succeeds (and so none changes deposit_amount, total_liquidity or
\* total_borrowed) with a transfer in it that failed.
C11_FailedTransferAborts ==
    (last.op \in {"deposit", "withdraw", "approve_loan"} /\ last.ok)
        => \A k \in 1 .. Len(last.calls) : last.calls[k].ok

\* C16: settling a lender's interest a second time, with no repay in between,
\* changes nothing: the storage and the pending value returned are those of
\* the first settlement.
C16_SettlementIdempotent ==
    \A c \in Callers :
        LET first  == update_interest(World, c)
            second == update_interest(first.w, c)
        IN  second.w = first.w /\ second.ret = first.ret

\* C16 witness: a lender with a deposit and interest not yet settled, so that
\* the first settlement does change the lender's record
C16_Witness ==
    \E c \in Callers :
        /\ pool.lenders[c].deposit_amount > 0
        /\ pool.accumulated_interest_per_share
              > pool.lenders[c].last_acc_interest_per_share
        /\ update_interest(World, c).ret > pool.lenders[c].earned_interest
        /\ update_interest(World, c).w.pool # pool

\* C20: what a lender has received as interest through withdrawals never
\* exceeds what has accrued to the lender over the checkpoint intervals.
C20_InterestPaidAtMostOnce ==
    \A c \in Callers : earnings.owed[c] >= 0

\* what a payment that has just succeeded pulled from the payer
Pulled == last'.calls[1].tokens

\* the month's interest on what is outstanding on a loan, and the principal a
\* payment of amount brings
InterestDue(loan) ==
    (loan.outstanding_balance * (loan.interest_rate_bps \div 12)) \div 10000

PrincipalOf(loan, amount) ==
    IF amount > InterestDue(loan) THEN amount - InterestDue(loan) ELSE 0

\* C12: a payment of amount > 0 on an Active loan whose principal portion,
\* max(0, amount - interest), is below what is outstanding, where interest =
\* outstanding * (rate_bps / 12) / 10000, lowers outstanding_balance by the
\* principal portion, reports the interest to the pool and leaves the loan
\* Active; 1000 outstanding at 1200 bps and a payment of 100 split 10 / 90.
C12_PaymentSplit ==
    [][/\ \A i \in LoanIds :
             (/\ last'.op \in PaymentOps /\ last'.ok /\ last'.loan_id = i
              /\ PrincipalOf(lm.loans[i], Pulled) < lm.loans[i].outstanding_balance)
                 => /\ Pulled > 0 /\ lm.loans[i].status = Active
                    /\ lm'.loans[i].outstanding_balance =
                           lm.loans[i].outstanding_balance
                             - PrincipalOf(lm.loans[i], Pulled)
                    /\ lm'.loans[i].status = Active
                    /\ pool'.total_interest_earned =
                           pool.total_interest_earned + InterestDue(lm.loans[i])
       /\ _calculate_interest_portion(1000, 1200) = 10
       /\ 100 - _calculate_interest_portion(1000, 1200) = 90]_vars

\* C12 witness: a payment larger than the interest has just lowered what is
\* outstanding on a loan that stays Active
C12_Witness ==
    /\ last.op = "make_payment" /\ last.ok
    /\ lm.loans[last.loan_id].status = Active
    /\ lm.loans[last.loan_id].outstanding_balance > 0
    /\ lm.loans[last.loan_id].outstanding_balance
          + last.amount > lm.loans[last.loan_id].loan_amount
    /\ lm.loans[last.loan_id].outstanding_balance
          < lm.loans[last.loan_id].loan_amount

\* C13: a payment on an Active loan whose principal portion is at least what
\* is outstanding takes outstanding_balance down by exactly what was
\* outstanding, to 0, makes the loan Repaid and unstakes its collateral token
\* in the same call.
C13_PayoffClampsAndUnstakes ==
    [][\A i \in LoanIds :
          (/\ last'.op \in PaymentOps /\ last'.ok /\ last'.loan_id = i
           /\ PrincipalOf(lm.loans[i], Pulled) >= lm.loans[i].outstanding_balance)
              => /\ lm.loans[i].status = Active
                 /\ lm'.loans[i].outstanding_balance = 0
                 /\ lm'.loans[i].status = Repaid
                 /\ applied'[i] - applied[i] = lm.loans[i].outstanding_balance
                 /\ ~nft'.tokens[lm.loans[i].nft_collateral_id].staked]_vars

\* C13 witness: the last of several payments has just made the loan Repaid
\* and its collateral token is no longer staked
C13_Witness ==
    /\ last.op = "make_payment" /\ last.ok
    /\ lm.loans[last.loan_id].status = Repaid
    /\ lm.loans[last.loan_id].outstanding_balance = 0
    /\ last.amount < lm.loans[last.loan_id].loan_amount
    /\ ~nft.tokens[lm.loans[last.loan_id].nft_collateral_id].staked

\* C14: a loan goes from Active to Repaid only in the payment with which the
\* principal portions applied to it add up to loan_amount, and becomes Repaid
\* from no other status; while it is Active its outstanding_balance is
\* loan_amount less the principal applied so far, and above 0.
C14_RepaidWhenPrincipalReachesLoanAmount ==
    [][\A i \in LoanIds :
          /\ (lm.loans[i].status # Repaid /\ lm'.loans[i].status = Repaid)
                => /\ lm.loans[i].status = Active
                   /\ last'.op \in PaymentOps /\ last'.loan_id = i
                   /\ applied[i] < lm.loans[i].loan_amount
                   /\ applied'[i] = lm.loans[i].loan_amount
          /\ lm'.loans[i].status = Active
                => /\ lm'.loans[i].outstanding_balance =
                          lm'.loans[i].loan_amount - applied'[i]
                   /\ lm'.loans[i].outstanding_balance > 0]_vars

\* C14 witness: a loan has become Repaid after at least three payments, one
\* of which brought no principal
C14_Witness ==
    /\ last.op \in PaymentOps /\ last.ok
    /\ lm.loans[last.loan_id].status = Repaid
    /\ applied[last.loan_id] = lm.loans[last.loan_id].loan_amount
    /\ pool.total_interest_earned >= 5

\* the payment process_auto_repayment makes of a remittance
DueOf(loan, remittance) ==
    IF remittance < loan.monthly_payment THEN remittance ELSE loan.monthly_payment

\* C17: process_auto_repayment by the oracle succeeds only on an Active loan
\* with a remittance above 0; it then pulls min(remittance, monthly_payment)
\* from the borrower, applies that as the payment and returns the remittance
\* less that amount.  On a loan that is not Active or with a remittance of 0
\* it fails and changes no storage.
C17_AutoRepaymentCapped ==
    [][(last'.op = "process_auto_repayment" /\ last'.caller = lm.oracle)
          => LET loan == lm.loans[last'.loan_id]
                 due  == DueOf(loan, last'.amount)
             IN  /\ last'.ok
                       => /\ loan.status = Active /\ last'.amount > 0
                          /\ last'.calls =
                                <<[fn |-> "transferFrom", from |-> loan.borrower,
                                   to |-> PoolAddr, tokens |-> due, ok |-> TRUE]>>
                          /\ last'.ret = last'.amount - due
                          /\ lm'.loans[last'.loan_id].outstanding_balance =
                                IF PrincipalOf(loan, due) < loan.outstanding_balance
                                THEN loan.outstanding_balance - PrincipalOf(loan, due)
                                ELSE 0
                 /\ (loan.status # Active \/ last'.amount = 0)
                       => ~last'.ok /\ UNCHANGED Storage]_vars

\* C17 witness: a remittance above the monthly payment has just been applied
\* to an Active loan, and the remainder returned
C17_Witness ==
    /\ last.op = "process_auto_repayment" /\ last.ok
    /\ last.ret > 0
    /\ last.calls[1].tokens = lm.loans[last.loan_id].monthly_payment
    /\ last.calls[1].tokens + last.ret = last.amount

\* the rate of the tier a score, reduced mod 100, falls in
TierRate(s) ==
    CASE s \in 90 .. 99 -> 1500
      [] s \in 80 .. 89 -> 2000
      [] s \in 70 .. 79 -> 3000
      [] s \in 0 .. 69  -> 4000

\* C15: the interest rate request_loan gives a loan is that of the tier of
\* its collateral's reliability score mod 100: 1500 bps from 90, 2000 from 80,
\* 3000 from 70, else 4000 (the score is the one the token was minted with).
C15_RateFollowsScoreTier ==
    \A i \in LoanIds :
        Requested(i)
            => lm.loans[i].interest_rate_bps =
                  TierRate(nft.tokens[lm.loans[i].nft_collateral_id].score % 100)

\* C15 witness: a loan requested on a token whose score is on a boundary, and
\* one whose score is reduced mod 100
C15_Witness ==
    \E i \in LoanIds :
        /\ Requested(i)
        /\ nft.tokens[lm.loans[i].nft_collateral_id].score \in {70, 80, 90, 100, 190}
        /\ lm.loans[i].interest_rate_bps
              = TierRate(nft.tokens[lm.loans[i].nft_collateral_id].score % 100)

\* C18: submit_verification succeeds only for a user who has a verification
\* request and whose request is Pending; it then mints exactly one collateral
\* token and makes the request Verified.  Otherwise it mints nothing and
\* changes no storage.
C18_SubmitNeedsPendingRequest ==
    [][last'.op = "submit_verification"
          => IF last'.ok
             THEN /\ nft'.minted = nft.minted + 1
                  /\ \E u \in Callers :
                        /\ gw.verification_requests[u].user = u
                        /\ gw.verification_requests[u].status = VPending
                        /\ gw'.verification_requests[u].status = VVerified
                        /\ nft'.tokens[nft'.minted].owner = u
             ELSE UNCHANGED Storage]_vars

\* the sum of outstanding_balance over the loans of S
RECURSIVE SumOutstanding(_)
SumOutstanding(S) ==
    IF S = {} THEN 0
    ELSE LET i == CHOOSE x \in S : TRUE
         IN  lm.loans[i].outstanding_balance + SumOutstanding(S \ {i})

\* the loans that were disbursed and are not Repaid
OpenLoans == {i \in disbursed : lm.loans[i].status # Repaid}

\* C21: the pool's total_borrowed is always the sum of outstanding_balance
\* over the loans that were disbursed by approve_loan and are not Repaid; a
\* payment, the overpaying final one included, takes from total_borrowed what
\* it takes from the loan's outstanding_balance.
C21_BorrowedIsSumOfOutstanding ==
    pool.total_borrowed = SumOutstanding(OpenLoans)

\* what a payment reported to LendingPool.repay: the principal, taken from
\* total_borrowed, and the interest, added to total_interest_earned
ReportedPrincipal == pool.total_borrowed - pool'.total_borrowed
ReportedInterest  == pool'.total_interest_earned - pool.total_interest_earned

\* C22: in every payment, the principal plus the interest that the LoanManager
\* reports to LendingPool.repay is at most the token amount the payment's
\* transferFrom pulled from the payer, also when the amount is smaller than
\* the interest portion; the interest added to total_interest_earned is then
\* never more than what was delivered to the pool.
C22_ReportedAtMostPulled ==
    [][(last'.ok /\ last'.op \in PaymentOps /\ Len(last'.calls) > 0)
         => /\ ReportedPrincipal + ReportedInterest <= Pulled
            /\ ReportedInterest <= Pulled]_vars

\* the user has called request_verification, which records the caller as the
\* request's user
HasRequested(u) == gw.verification_requests[u].user = u

\* C23: a user's request is Verified, and a collateral token is owned by the
\* user, only if the user has called request_verification before:
\* submit_verification for an address that never requested is rejected.
C23_VerifiedOnlyAfterRequest ==
    \A u \in Callers :
        (\/ gw.verification_requests[u].status = VVerified
         \/ \E t \in 1..nft.minted : nft.tokens[t].owner = u)
            => HasRequested(u)

\* the scores that submit_verification's paid * 100 / total yields when no
\* more payments are paid than were due
ScoreRange == 0..100

\* C24: over the scores 0..100, the rate that request_loan assigns does not
\* increase with the reliability score: a loan requested on a token of score s
\* gets a rate no higher than the rate of any lower score, the score 100 of a
\* user with total_count == 0 or a perfect payment history included.
C24_RateNonIncreasingInScore ==
    \A i \in LoanIds :
        LET s == nft.tokens[lm.loans[i].nft_collateral_id].score
        IN  (Requested(i) /\ s \in ScoreRange)
               => \A t \in ScoreRange :
                     t <= s => lm.loans[i].interest_rate_bps
                                 <= _calculate_interest_rate(t)

\* a loan has just become monitored in the gateway
Enrolled(i) == gw'.monitored_loans[i] /\ ~gw.monitored_loans[i]

\* C25: the gateway's loan_manager and collateral-registry addresses change
\* only in a call by the admin, and a loan becomes monitored only through
\* start_monitoring_loan called by the genuine LoanManager: no other address
\* makes itself the gateway's LoanManager and enrolls loans.
C25_OnlyAdminSetsAddresses ==
    [][/\ (\/ gw'.loan_manager # gw.loan_manager
           \/ gw'.remittance_nft # gw.remittance_nft)
            => last'.caller = gw.admin
       /\ \A i \in LoanIds :
             Enrolled(i) => /\ last'.op = "start_monitoring_loan"
                            /\ last'.caller = LMAddr]_vars

====
